---- MODULE Spec2Model ----
(***************************************************************************)
(* A model of the WIM archive parser (src/src/lib.rs): the 204-byte       *)
(* header decoder, the XML resource reader, the UTF-16 decoder, the image *)
(* fragment extractor and the version / architecture classifiers.         *)
(*                                                                         *)
(* Numbers.  TLC's integers are 32 bits wide, so a u16 / u32 / u64 of the  *)
(* program is a little-endian sequence of 1 / 2 / 4 limbs of 16 bits.      *)
(* Text.  A String of the program is a sequence of Unicode scalar values;  *)
(* S("...") writes a literal.  Offsets into text are 0-based as in Rust.   *)
(***************************************************************************)
EXTENDS Integers, Sequences, FiniteSets, TLC

VARIABLES
    archive,   \* the bytes of the file the session has open (never written)
    header,    \* WimParser.header : Option<WimHeader>
    images,    \* WimParser.images : Vec<ImageInfo>
    pos,       \* the cursor of WimParser.file
    hreads,    \* how many times the session has read the header bytes
    ret,       \* the operation called last and what it returned
    calls,     \* how many operations have been called on the session
    parses,    \* how many of them were XML parses that succeeded
    input,     \* the argument of the pure function under check
    output     \* its result

vars == <<archive, header, images, pos, hreads, ret, calls, parses, input, output>>

(***************************** Option, Result *****************************)

None == [some |-> FALSE]
Some(v) == [some |-> TRUE, v |-> v]
IsSome(o) == o.some
\* Option::or
OrElse(a, b) == IF a.some THEN a ELSE b

Ok(v) == [ok |-> TRUE, v |-> v]
\* kind: "Io" (std::io::Error), "Format" (anyhow!(..)), "Decode" (FromUtf16Error)
Err(kind, msg) == [ok |-> FALSE, kind |-> kind, msg |-> msg]

Min(set) == CHOOSE m \in set : \A n \in set : m <= n

(********************************* Text ***********************************)

\* the printable ASCII characters 32..95 and 97..126
AsciiLo == " !\"#$%&'()*+,-./0123456789:;<=>?@ABCDEFGHIJKLMNOPQRSTUVWXYZ[\\]^_"
AsciiHi == "abcdefghijklmnopqrstuvwxyz{|}~"

\* the scalar value of each one-character literal
OrdOf ==
    [c \in {SubSeq(AsciiLo, k, k) : k \in 1..Len(AsciiLo)}
           \cup {SubSeq(AsciiHi, k, k) : k \in 1..Len(AsciiHi)} |->
        IF \E k \in 1..Len(AsciiLo) : SubSeq(AsciiLo, k, k) = c
        THEN 31 + (CHOOSE k \in 1..Len(AsciiLo) : SubSeq(AsciiLo, k, k) = c)
        ELSE 96 + (CHOOSE k \in 1..Len(AsciiHi) : SubSeq(AsciiHi, k, k) = c)]

\* a string literal as the program's text
S(str) == [i \in 1..Len(str) |-> OrdOf[SubSeq(str, i, i)]]

\* &t[a..b]
Slice(t, a, b) == SubSeq(t, a + 1, b)

\* whether pat occurs in t at offset i
occurs_at(t, pat, i) == \A j \in 1..Len(pat) : t[i + j] = pat[j]

\* str::find: the offset of the first occurrence of pat in t, -1 for None
find(t, pat) ==
    LET hits == {i \in 0..(Len(t) - Len(pat)) : occurs_at(t, pat, i)}
    IN  IF hits = {} THEN -1 ELSE Min(hits)

\* str::contains
contains(t, pat) == find(t, pat) # -1

\* str::to_lowercase, on the letters A-Z
to_lowercase(t) == [i \in 1..Len(t) |-> IF t[i] \in 65..90 THEN t[i] + 32 ELSE t[i]]

\* char::is_whitespace, on the characters tab, LF, VT, FF, CR and space
is_whitespace(c) == c \in {9, 10, 11, 12, 13, 32}

\* str::trim
trim(t) ==
    LET keep == {i \in 1..Len(t) : ~is_whitespace(t[i])}
    IN  IF keep = {} THEN <<>>
        ELSE SubSeq(t, Min(keep), CHOOSE m \in keep : \A n \in keep : n <= m)

(******************************** Numbers *********************************)

\* u16::, u32::, u64::from_le_bytes: 2, 4 or 8 bytes to 1, 2 or 4 limbs
from_le_bytes(b) == [k \in 1..(Len(b) \div 2) |-> b[2 * k - 1] + 256 * b[2 * k]]

IsZero(n) == \A k \in 1..Len(n) : n[k] = 0

(***************************** Header decoding ****************************)

\* the archive's magic, b"MSWIM\x00\x00\x00"
Magic == <<77, 83, 87, 73, 77, 0, 0, 0>>

\* the closures of parse_header_buffer; offset is 0-based as in the code
read_u32_le(buffer, offset) == from_le_bytes(Slice(buffer, offset, offset + 4))
read_u16_le(buffer, offset) == from_le_bytes(Slice(buffer, offset, offset + 2))
read_u64_le(buffer, offset) == from_le_bytes(Slice(buffer, offset, offset + 8))

\* a plausible slip: the size read as 8 bytes, flags byte included
parse_resource_entry_size8(buffer, offset) ==
    [size          |-> read_u64_le(buffer, offset),
     flags         |-> buffer[offset + 7 + 1],
     offset        |-> read_u64_le(buffer, offset + 8),
     original_size |-> read_u64_le(buffer, offset + 16)]

parse_resource_entry(buffer, offset) ==
    LET size_bytes == Slice(buffer, offset, offset + 7)
        size_array == size_bytes \o <<0>>
    IN  [size          |-> from_le_bytes(size_array),
         flags         |-> buffer[offset + 7 + 1],
         offset        |-> read_u64_le(buffer, offset + 8),
         original_size |-> read_u64_le(buffer, offset + 16)]

parse_header_buffer(buffer) ==
    [signature              |-> Slice(buffer, 0, 8),
     header_size            |-> read_u32_le(buffer, 8),
     format_version         |-> read_u32_le(buffer, 12),
     file_flags             |-> read_u32_le(buffer, 16),
     compressed_size        |-> read_u32_le(buffer, 20),
     guid                   |-> Slice(buffer, 24, 40),
     segment_number         |-> read_u16_le(buffer, 40),
     total_segments         |-> read_u16_le(buffer, 42),
     image_count            |-> read_u32_le(buffer, 44),
     offset_table_resource  |-> parse_resource_entry(buffer, 48),
     xml_data_resource      |-> parse_resource_entry(buffer, 72),
     boot_metadata_resource |-> parse_resource_entry(buffer, 96),
     bootable_image_index   |-> read_u32_le(buffer, 120),
     integrity_resource     |-> parse_resource_entry(buffer, 124)]

(**************************** Decimal numbers ******************************)

Zero(limbs) == [k \in 1..limbs |-> 0]

\* n * m + carry, one limb longer than n: the last limb is what overflowed
RECURSIVE MulAdd(_, _, _)
MulAdd(n, m, carry) ==
    IF n = <<>> THEN <<carry>>
    ELSE LET v == n[1] * m + carry
         IN  <<v % 65536>> \o MulAdd(Tail(n), m, v \div 65536)

\* the digits of an unsigned integer, most significant first; None on a
\* character that is no digit and on overflow of the type's width
RECURSIVE ParseDigits(_, _)
ParseDigits(t, acc) ==
    IF t = <<>> THEN Some(acc)
    ELSE IF t[1] \notin 48..57 THEN None
    ELSE LET r == MulAdd(acc, 10, t[1] - 48)
         IN  IF r[Len(r)] # 0 THEN None
             ELSE ParseDigits(Tail(t), SubSeq(r, 1, Len(acc)))

\* str::parse::<u32>() (limbs = 2) and ::<u64>() (limbs = 4), .ok():
\* an optional '+', then at least one digit
parse(t, limbs) ==
    LET body == IF t # <<>> /\ t[1] = 43 THEN Tail(t) ELSE t
    IN  IF body = <<>> THEN None ELSE ParseDigits(body, Zero(limbs))

\* n divided by 10: quotient and remainder, from the most significant limb
RECURSIVE DivMod10(_, _)
DivMod10(n, rem) ==
    IF n = <<>> THEN [q |-> <<>>, r |-> rem]
    ELSE LET v    == rem * 65536 + n[Len(n)]
             rest == DivMod10(SubSeq(n, 1, Len(n) - 1), v % 10)
         IN  [q |-> rest.q \o <<v \div 10>>, r |-> rest.r]

\* the {index} of format!: the decimal digits of an unsigned integer
RECURSIVE to_string(_)
to_string(n) ==
    LET d == DivMod10(n, 0)
    IN  IF IsZero(d.q) THEN <<48 + d.r>> ELSE to_string(d.q) \o <<48 + d.r>>

(**************************** Image fragments *****************************)
(* A local of the code that is read more than once is a parameter of an    *)
(* auxiliary operator here, so that it is written once.                    *)

\* Option::unwrap_or, unwrap_or_else
unwrap_or(o, default) == IF o.some THEN o.v ELSE default

\* a plausible slip: an end tag right after the start tag accepted
tag_value_inclusive(xml, start, start_tag_len, end) ==
    IF start # -1 /\ end # -1 /\ start + start_tag_len <= end
    THEN Some(trim(Slice(xml, start + start_tag_len, end)))
    ELSE None

\* extract_tag_value, once the two tags have been looked for: start and end
\* are where the start tag and the end tag were found (-1: not found)
tag_value(xml, start, start_tag_len, end) ==
    IF start # -1 /\ end # -1 /\ start + start_tag_len < end
    THEN Some(trim(Slice(xml, start + start_tag_len, end)))
    ELSE None

\* the closure extract_tag_value of parse_single_image_xml and of
\* parse_arch_from_xml (the two are the same text)
extract_tag_value(xml, tag) ==
    tag_value(xml, find(xml, S("<") \o tag \o S(">")), Len(tag) + 2,
              find(xml, S("</") \o tag \o S(">")))

\* a plausible slip: the codes of x86 and x64 exchanged
arch_label_swapped(arch_value) ==
    IF ~arch_value.some THEN None
    ELSE CASE arch_value.v = S("0")  -> Some(S("x64"))
           [] arch_value.v = S("9")  -> Some(S("x86"))
           [] arch_value.v = S("5")  -> Some(S("ARM"))
           [] arch_value.v = S("12") -> Some(S("ARM64"))
           [] OTHER -> None

\* the match of parse_arch_from_xml on the ARCH tag value
arch_label(arch_value) ==
    IF ~arch_value.some THEN None
    ELSE CASE arch_value.v = S("0")  -> Some(S("x86"))
           [] arch_value.v = S("9")  -> Some(S("x64"))
           [] arch_value.v = S("5")  -> Some(S("ARM"))
           [] arch_value.v = S("12") -> Some(S("ARM64"))
           [] OTHER -> None

parse_arch_from_xml(image_xml) == arch_label(extract_tag_value(image_xml, S("ARCH")))

\* format!("{name} {description}").to_lowercase()
combined_text(name, description) == to_lowercase(name \o S(" ") \o description)

\* a plausible slip: the generic "windows server" looked for before the
\* specific server versions
version_of_generic_first(text) ==
    IF contains(text, S("windows 11")) THEN Some(S("Windows 11"))
    ELSE IF contains(text, S("windows 10")) THEN Some(S("Windows 10"))
    ELSE IF contains(text, S("windows server")) THEN Some(S("Windows Server"))
    ELSE IF contains(text, S("windows server 2022")) THEN Some(S("Windows Server 2022"))
    ELSE IF contains(text, S("windows server 2019")) THEN Some(S("Windows Server 2019"))
    ELSE IF contains(text, S("windows")) THEN Some(S("Windows"))
    ELSE None

\* the version half of extract_version_and_arch
version_of(text) ==
    IF contains(text, S("windows 11")) THEN Some(S("Windows 11"))
    ELSE IF contains(text, S("windows 10")) THEN Some(S("Windows 10"))
    ELSE IF contains(text, S("windows server 2022")) THEN Some(S("Windows Server 2022"))
    ELSE IF contains(text, S("windows server 2019")) THEN Some(S("Windows Server 2019"))
    ELSE IF contains(text, S("windows server")) THEN Some(S("Windows Server"))
    ELSE IF contains(text, S("windows")) THEN Some(S("Windows"))
    ELSE None

\* a plausible slip: "x86" looked for before "x64"
architecture_of_x86_first(text) ==
    IF contains(text, S("x86")) THEN Some(S("x86"))
    ELSE IF contains(text, S("x64")) \/ contains(text, S("amd64")) THEN Some(S("x64"))
    ELSE IF contains(text, S("arm64")) THEN Some(S("ARM64"))
    ELSE None

\* the architecture half of extract_version_and_arch
architecture_of(text) ==
    IF contains(text, S("x64")) \/ contains(text, S("amd64")) THEN Some(S("x64"))
    ELSE IF contains(text, S("x86")) THEN Some(S("x86"))
    ELSE IF contains(text, S("arm64")) THEN Some(S("ARM64"))
    ELSE None

\* (version, architecture) of the combined text
version_and_arch(text) == <<version_of(text), architecture_of(text)>>

extract_version_and_arch(name, description) ==
    version_and_arch(combined_text(name, description))

\* the INDEX attribute, its value starting at index_value_start and the
\* closing quote found index_end characters further (-1: not found)
index_parsed(image_xml, index_value_start, index_end) ==
    IF index_end = -1 THEN Zero(2)
    ELSE unwrap_or(parse(Slice(image_xml, index_value_start, index_value_start + index_end), 2),
                   Zero(2))

\* the INDEX attribute, "INDEX=\"" found at index_start (-1: not found)
index_found(image_xml, index_start) ==
    IF index_start = -1 THEN Zero(2)
    ELSE index_parsed(image_xml, index_start + 7,
                      find(Slice(image_xml, index_start + 7, Len(image_xml)), S("\"")))

\* the INDEX attribute of parse_single_image_xml
index_of(image_xml) == index_found(image_xml, find(image_xml, S("INDEX=\"")))

\* .and_then(|s| s.parse().ok())
and_then_parse(o, limbs) == IF o.some THEN parse(o.v, limbs) ELSE None

\* extract_tag_value(..).and_then(|s| s.parse().ok()).unwrap_or(0)
number_of(image_xml, tag, limbs) ==
    unwrap_or(and_then_parse(extract_tag_value(image_xml, tag), limbs), Zero(limbs))

\* a plausible slip: the name heuristic taken before the ARCH tag
image_record_name_first(index, name, description, dir_count, file_count, total_bytes, arch_from_xml, va) ==
    Ok([index        |-> index,
        name         |-> name,
        description  |-> description,
        dir_count    |-> dir_count,
        file_count   |-> file_count,
        total_bytes  |-> total_bytes,
        creation_time          |-> None,
        last_modification_time |-> None,
        version      |-> va[1],
        architecture |-> OrElse(va[2], arch_from_xml)])

\* the ImageInfo built at the end of parse_single_image_xml, returned as
\* Ok(..); va is what extract_version_and_arch gave
image_record(index, name, description, dir_count, file_count, total_bytes, arch_from_xml, va) ==
    Ok([index        |-> index,
        name         |-> name,
        description  |-> description,
        dir_count    |-> dir_count,
        file_count   |-> file_count,
        total_bytes  |-> total_bytes,
        creation_time          |-> None,
        last_modification_time |-> None,
        version      |-> va[1],
        architecture |-> OrElse(arch_from_xml, va[2])])

\* parse_single_image_xml from the name and the description on
image_described(image_xml, index, name, description) ==
    image_record(index, name, description,
                 number_of(image_xml, S("DIRCOUNT"), 2),
                 number_of(image_xml, S("FILECOUNT"), 2),
                 number_of(image_xml, S("TOTALBYTES"), 4),
                 parse_arch_from_xml(image_xml),
                 extract_version_and_arch(name, description))

\* parse_single_image_xml from the index on; dn and dd are the values of the
\* DISPLAYNAME and DISPLAYDESCRIPTION tags
image_indexed(image_xml, index, dn, dd) ==
    image_described(image_xml, index,
                    unwrap_or(dn, S("Image ") \o to_string(index)),
                    unwrap_or(dd, S("Unknown")))

\* the ImageInfo of a fragment; the code returns Ok(..) on every path
parse_single_image_xml(image_xml) ==
    image_indexed(image_xml, index_of(image_xml),
                  extract_tag_value(image_xml, S("DISPLAYNAME")),
                  extract_tag_value(image_xml, S("DISPLAYDESCRIPTION")))

\* if let Ok(image_info) = .. { self.images.push(image_info) }
push_if_ok(imgs, image_info) ==
    IF image_info.ok THEN Append(imgs, image_info.v) ELSE imgs

RECURSIVE scan_images(_, _, _)

\* a plausible slip: the cursor moved to just after "<IMAGE", not to just
\* after the closing tag
scan_fragment_resume_inside(xml_content, imgs, absolute_start, image_end) ==
    IF image_end = -1 THEN imgs
    ELSE scan_images(xml_content, absolute_start + 6,
                     push_if_ok(imgs, parse_single_image_xml(
                         Slice(xml_content, absolute_start, absolute_start + image_end + 8))))

\* the body of the loop, "<IMAGE" found at absolute_start and "</IMAGE>"
\* image_end characters further (-1: not found, the loop breaks)
scan_fragment(xml_content, imgs, absolute_start, image_end) ==
    IF image_end = -1 THEN imgs
    ELSE scan_images(xml_content, absolute_start + image_end + 8,
                     push_if_ok(imgs, parse_single_image_xml(
                         Slice(xml_content, absolute_start, absolute_start + image_end + 8))))

\* the loop's condition, "<IMAGE" found image_start characters after the
\* cursor (-1: not found, the loop ends)
scan_found(xml_content, imgs, start_pos, image_start) ==
    IF image_start = -1 THEN imgs
    ELSE scan_fragment(xml_content, imgs, start_pos + image_start,
                       find(Slice(xml_content, start_pos + image_start, Len(xml_content)),
                            S("</IMAGE>")))

\* the while loop of parse_xml_images, from cursor start_pos on
scan_images(xml_content, start_pos, imgs) ==
    scan_found(xml_content, imgs, start_pos,
               find(Slice(xml_content, start_pos, Len(xml_content)), S("<IMAGE")))

\* a plausible slip: the list not cleared before the scan
parse_xml_images_no_clear(imgs, xml_content) == scan_images(xml_content, 0, imgs)

\* parse_xml_images: the image list it leaves in self.images (cleared, then
\* one record pushed per fragment); it returns Ok(())
parse_xml_images(imgs, xml_content) == scan_images(xml_content, 0, <<>>)

(***************************** UTF-16 decoding ****************************)

\* String::from_utf16: the scalar values of the code units, a surrogate pair
\* (high 0xD800..0xDBFF, then low 0xDC00..0xDFFF) giving one; None
\* (FromUtf16Error) when a surrogate is unpaired
from_utf16(units) ==
    LET high(i) == units[i] \in 55296..56319
        low(i)  == units[i] \in 56320..57343
        paired  == \A i \in 1..Len(units) :
                      /\ high(i) => (i < Len(units) /\ low(i + 1))
                      /\ low(i)  => (i > 1 /\ high(i - 1))
        starts  == {i \in 1..Len(units) : ~low(i)}
        nth(k)  == CHOOSE i \in starts : Cardinality({j \in starts : j <= i}) = k
        char(i) == IF high(i)
                   THEN 65536 + (units[i] - 55296) * 1024 + (units[i + 1] - 56320)
                   ELSE units[i]
    IN  IF ~paired THEN None
        ELSE IF starts = 1..Len(units) THEN Some(units)
        ELSE Some([k \in 1..Cardinality(starts) |-> char(nth(k))])

\* a plausible slip: the image list cleared before the payload is decoded
xml_failed_cleared(imgs, kind, msg) == [res |-> Err(kind, msg), images |-> <<>>, text |-> None]

\* what parse_xml_data returns, the image list it leaves, and the text it
\* decoded (the local xml_string; None when decoding was not reached)
xml_failed(imgs, kind, msg) == [res |-> Err(kind, msg), images |-> imgs, text |-> None]

\* parse_xml_data from String::from_utf16 on
xml_decoded(imgs, xml_string) ==
    IF ~xml_string.some
    THEN xml_failed(imgs, "Decode", "cannot convert XML data to UTF-8")
    ELSE [res |-> Ok("unit"),
          images |-> parse_xml_images(imgs, xml_string.v),
          text |-> xml_string]

\* a plausible slip: the length of the payload checked before its BOM
parse_xml_data_odd_first(imgs, xml_buffer) ==
    IF Len(xml_buffer) < 2
    THEN xml_failed(imgs, "Format", "XML data too short")
    ELSE IF Len(Slice(xml_buffer, 2, Len(xml_buffer))) % 2 # 0
    THEN xml_failed(imgs, "Format", "XML UTF-16 data length is not even")
    ELSE IF xml_buffer[1] # 255 \/ xml_buffer[2] # 254
    THEN xml_failed(imgs, "Format", "invalid XML data BOM")
    ELSE xml_decoded(imgs, from_utf16(from_le_bytes(Slice(xml_buffer, 2, Len(xml_buffer)))))

parse_xml_data(imgs, xml_buffer) ==
    IF Len(xml_buffer) < 2
    THEN xml_failed(imgs, "Format", "XML data too short")
    ELSE IF xml_buffer[1] # 255 \/ xml_buffer[2] # 254
    THEN xml_failed(imgs, "Format", "invalid XML data BOM")
    ELSE IF Len(Slice(xml_buffer, 2, Len(xml_buffer))) % 2 # 0
    THEN xml_failed(imgs, "Format", "XML UTF-16 data length is not even")
    ELSE xml_decoded(imgs, from_utf16(from_le_bytes(Slice(xml_buffer, 2, Len(xml_buffer)))))

(******************************* The session ******************************)
(* A session is [file, pos, header, images, hreads]; an operation gives    *)
(* [self |-> the session it leaves, res |-> what it returns].              *)

\* a u64 that is a small number
U64(i) == <<i, 0, 0, 0>>
\* whether a u64 is below 2^16 (every archive of the model is shorter)
Small(n) == n[2] = 0 /\ n[3] = 0 /\ n[4] = 0

\* Read::read_exact of n bytes at the cursor: the bytes when the file holds
\* them; otherwise the read ends at the end of the file (UnexpectedEof)
read_exact(file, at, n) ==
    IF Small(at) /\ Small(n) /\ at[1] + n[1] <= Len(file)
    THEN [ok |-> TRUE, buf |-> Slice(file, at[1], at[1] + n[1]), pos |-> U64(at[1] + n[1])]
    ELSE [ok |-> FALSE, buf |-> <<>>,
          pos |-> IF Small(at) /\ at[1] < Len(file) THEN U64(Len(file)) ELSE at]

\* the size of the header buffer read_header reads
HeaderLen == 204

\* a plausible slip: the header cached before its signature is checked
header_decoded_cache_first(self, header_) ==
    IF header_.signature # Magic
    THEN [self |-> [self EXCEPT !.header = Some(header_)],
          res |-> Err("Format", "invalid WIM file signature")]
    ELSE [self |-> [self EXCEPT !.header = Some(header_)], res |-> Ok(header_)]

\* a plausible slip: the signature not checked
header_decoded_no_check(self, header_) ==
    [self |-> [self EXCEPT !.header = Some(header_)], res |-> Ok(header_)]

\* read_header from the signature check on
header_decoded(self, header_) ==
    IF header_.signature # Magic
    THEN [self |-> self, res |-> Err("Format", "invalid WIM file signature")]
    ELSE [self |-> [self EXCEPT !.header = Some(header_)], res |-> Ok(header_)]

\* read_header from read_exact on: rd is what the read of 204 bytes at
\* offset 0 gave
header_read(self, rd) ==
    IF ~rd.ok
    THEN [self |-> [self EXCEPT !.pos = rd.pos, !.hreads = @ + 1],
          res |-> Err("Io", "reading the WIM header failed")]
    ELSE header_decoded([self EXCEPT !.pos = rd.pos, !.hreads = @ + 1],
                        parse_header_buffer(rd.buf))

\* a plausible slip: the cached header not looked at
read_header_uncached(self) ==
    header_read(self, read_exact(self.file, U64(0), U64(HeaderLen)))

read_header(self) ==
    IF self.header.some THEN [self |-> self, res |-> Ok(self.header.v)]
    ELSE header_read(self, read_exact(self.file, U64(0), U64(HeaderLen)))

\* Seek::seek(SeekFrom::Start(offset)): lseek takes a signed 64-bit offset and
\* refuses one of 2^63 or more
seek_ok(offset) == offset[4] < 32768

\* vec![0u8; size as usize] on a 64-bit target: "yes" for a buffer below
\* 2^16 bytes, "no" (the process aborts) for one of 2^47 bytes or more, which
\* no address space holds, and between the two mem, the machine's answer
alloc(size, mem) ==
    IF Small(size) THEN "yes"
    ELSE IF size[4] # 0 \/ size[3] >= 32768 THEN "no"
    ELSE mem

\* read_xml_data from parse_xml_data on: px is what it gave
xml_parsed(self, px) == [self |-> [self EXCEPT !.images = px.images], res |-> px.res]

\* read_xml_data from read_exact on: rd is what the read of size bytes gave
xml_read(self, rd) ==
    IF ~rd.ok
    THEN [self |-> [self EXCEPT !.pos = rd.pos], res |-> Err("Io", "reading the XML data failed")]
    ELSE xml_parsed([self EXCEPT !.pos = rd.pos], parse_xml_data(self.images, rd.buf))

\* a plausible slip: a descriptor of size 0 not refused
xml_resource_no_size_check(self, xml, mem) ==
    IF ~seek_ok(xml.offset)
    THEN [self |-> self, res |-> Err("Io", "seek failed")]
    ELSE IF alloc(xml.size, mem) = "no"
    THEN [self |-> [self EXCEPT !.pos = xml.offset],
          res |-> Err("Abort", "memory allocation failed")]
    ELSE xml_read([self EXCEPT !.pos = xml.offset],
                  read_exact(self.file, xml.offset, xml.size))

\* read_xml_data on the XML descriptor xml of the cached header; mem is how
\* the allocation of the buffer ends where the machine decides it
xml_resource(self, xml, mem) ==
    IF IsZero(xml.size)
    THEN [self |-> self, res |-> Err("Format", "no XML data resource in the WIM file")]
    ELSE IF ~seek_ok(xml.offset)
    THEN [self |-> self, res |-> Err("Io", "seek failed")]
    ELSE IF alloc(xml.size, mem) = "no"
    THEN [self |-> [self EXCEPT !.pos = xml.offset],
          res |-> Err("Abort", "memory allocation failed")]
    ELSE xml_read([self EXCEPT !.pos = xml.offset],
                  read_exact(self.file, xml.offset, xml.size))

\* the ? operator: rh is what the call before gave; its error is returned
xml_after(rh, mem) ==
    IF ~rh.res.ok THEN rh
    ELSE xml_resource(rh.self, rh.self.header.v.xml_data_resource, mem)

read_xml_data(self, mem) ==
    xml_after(IF ~self.header.some THEN read_header(self)
              ELSE [self |-> self, res |-> Ok("unit")],
              mem)

\* the ? operator of parse_full
full_after(rh, mem) == IF ~rh.res.ok THEN rh ELSE read_xml_data(rh.self, mem)

parse_full(self, mem) == full_after(read_header(self), mem)

(************************* Writing archives (input) ***********************)

\* to_le_bytes: limbs to bytes, as benches/xml_parsing.rs writes code units
to_le_bytes(n) ==
    [i \in 1..(2 * Len(n)) |->
        IF i % 2 = 1 THEN n[(i + 1) \div 2] % 256 ELSE n[i \div 2] \div 256]

\* a resource descriptor in its 24-byte layout: size 0:7, flags 7:1,
\* offset 8:8, original_size 16:8
EncodeResource(r) ==
    SubSeq(to_le_bytes(r.size), 1, 7) \o <<r.flags>>
        \o to_le_bytes(r.offset) \o to_le_bytes(r.original_size)

\* a header record in the 204-byte layout; bytes 148..203 are unused
EncodeHeader(h) ==
    h.signature
        \o to_le_bytes(h.header_size) \o to_le_bytes(h.format_version)
        \o to_le_bytes(h.file_flags) \o to_le_bytes(h.compressed_size)
        \o h.guid
        \o to_le_bytes(h.segment_number) \o to_le_bytes(h.total_segments)
        \o to_le_bytes(h.image_count)
        \o EncodeResource(h.offset_table_resource)
        \o EncodeResource(h.xml_data_resource)
        \o EncodeResource(h.boot_metadata_resource)
        \o to_le_bytes(h.bootable_image_index)
        \o EncodeResource(h.integrity_resource)
        \o [i \in 1..(HeaderLen - 148) |-> 0]

\* text as UTF-16LE with its byte-order mark (characters below U+10000)
EncodeUtf16(text) ==
    <<255, 254>> \o [i \in 1..(2 * Len(text)) |->
        IF i % 2 = 1 THEN text[(i + 1) \div 2] % 256 ELSE text[i \div 2] \div 256]

Max32 == <<65535, 65535>>
Max56 == <<65535, 65535, 65535, 255>>
Max64 == <<65535, 65535, 65535, 65535>>

Resource(size, flags, offset, original_size) ==
    [size |-> size, flags |-> flags, offset |-> offset, original_size |-> original_size]

\* a header whose fields all differ, so that a field read at the place of
\* another shows
BaseHeader ==
    [signature              |-> Magic,
     header_size            |-> <<208, 0>>,
     format_version         |-> <<3328, 1>>,
     file_flags             |-> <<2, 2>>,
     compressed_size        |-> <<32768, 0>>,
     guid                   |-> [i \in 1..16 |-> 16 * i],
     segment_number         |-> <<1>>,
     total_segments         |-> <<2>>,
     image_count            |-> <<3, 0>>,
     offset_table_resource  |-> Resource(<<11, 12, 13, 14>>, 1, <<15, 16, 17, 18>>, <<19, 20, 21, 22>>),
     xml_data_resource      |-> Resource(<<23, 24, 25, 26>>, 2, <<27, 28, 29, 30>>, <<31, 32, 33, 34>>),
     boot_metadata_resource |-> Resource(<<35, 36, 37, 38>>, 4, <<39, 40, 41, 42>>, <<43, 44, 45, 46>>),
     bootable_image_index   |-> <<4, 0>>,
     integrity_resource     |-> Resource(<<47, 48, 49, 50>>, 8, <<51, 52, 53, 54>>, <<55, 56, 57, 58>>)]

(************************ Specifications: common **************************)

\* a session just constructed (WimParser::new, new_for_test) on a file
NewSession(file) ==
    /\ archive = file
    /\ header = None
    /\ images = <<>>
    /\ pos = U64(0)
    /\ hreads = 0
    /\ ret = [op |-> "new", res |-> Ok("unit")]
    /\ calls = 0
    /\ parses = 0

session_vars == <<archive, header, images, pos, hreads, ret, calls, parses>>

(******************** SpecHeader: the header round trip *******************)

ResourceInputs ==
    {Resource(size, flags, offset, original_size) :
        size \in {Zero(4), U64(1), <<4660, 22136, 39612, 222>>, Max56},
        flags \in {0, 2, 255},
        offset \in {U64(HeaderLen), Max64},
        original_size \in {Zero(4), Max64}}

\* the base header with its scalar fields at their least or greatest values
ScalarVariant(v) ==
    IF v = "base" THEN BaseHeader
    ELSE LET n32 == IF v = "max" THEN Max32 ELSE Zero(2)
             n16 == IF v = "max" THEN <<65535>> ELSE Zero(1)
             n8  == IF v = "max" THEN 255 ELSE 0
         IN  [BaseHeader EXCEPT
                 !.signature = [i \in 1..8 |-> n8],
                 !.header_size = n32, !.format_version = n32,
                 !.file_flags = n32, !.compressed_size = n32,
                 !.guid = [i \in 1..16 |-> n8],
                 !.segment_number = n16, !.total_segments = n16,
                 !.image_count = n32, !.bootable_image_index = n32]

HeaderInputs ==
    {[ScalarVariant(v) EXCEPT ![slot] = r] :
        v \in {"base", "max", "zero"},
        slot \in {"offset_table_resource", "xml_data_resource",
                  "boot_metadata_resource", "integrity_resource"},
        r \in ResourceInputs}

InitHeader ==
    /\ NewSession(<<>>)
    /\ input \in HeaderInputs
    /\ output = [stage |-> "record"]

\* the record written in the 204-byte layout
WriteHeader ==
    /\ output.stage = "record"
    /\ output' = [stage |-> "bytes", buf |-> EncodeHeader(input)]
    /\ UNCHANGED <<session_vars, input>>

\* parse_header_buffer on the bytes written
DecodeHeader ==
    /\ output.stage = "bytes"
    /\ output' = [stage |-> "decoded", buf |-> output.buf,
                  header |-> parse_header_buffer(output.buf)]
    /\ UNCHANGED <<session_vars, input>>

NextHeader == WriteHeader \/ DecodeHeader

SpecHeader == InitHeader /\ [][NextHeader]_vars

\* C4: a header record whose fields fit their widths (sizes below 2^56),
\* written in the 204-byte layout and decoded by parse_header_buffer, comes
\* back with every field identical, whatever the flags bytes are; the size
\* 2^56-1 comes back exact.
C4_HeaderRoundTrip ==
    output.stage = "decoded" =>
        /\ Len(output.buf) = HeaderLen
        /\ output.header = input

C4_Witness ==
    /\ output.stage = "decoded"
    /\ input.xml_data_resource.size = Max56
    /\ input.xml_data_resource.flags = 255
    /\ output.header.xml_data_resource.size = Max56

(****************** SpecImage: one image fragment parsed ******************)

\* how many words a generated display name holds at most
MaxWords == 3

RECURSIVE Join(_)
Join(ws) ==
    IF ws = <<>> THEN ""
    ELSE IF Len(ws) = 1 THEN ws[1]
    ELSE ws[1] \o " " \o Join(Tail(ws))

\* the texts of at most n words of W, joined by single spaces
Phrases(W, n) == {Join(ws) : ws \in UNION {[1..k -> W] : k \in 0..n}}

VersionWords == {"Windows", "SERVER", "2019", "2022", "11", "10"}
ArchWords    == {"x64", "X86", "Amd64", "arm64", "ARM"}

\* the ARCH tag of a fragment: None when the fragment has no ARCH tag, else
\* the code and the white space around it
ArchTags ==
    {None} \cup {Some([code |-> c, pad |-> p]) :
                    c \in {"0", "9", "5", "12", "999", "x64", ""}, p \in {"", " "}}

ImageInputs ==
    {[arch |-> a, name |-> n, desc |-> d] :
        a \in ArchTags,
        n \in {"Windows 11 Pro x86", "amd64 box", "ARM64 x64", "Plain", ""},
        d \in {None, Some("x86 arm64")}}
    \cup
    {[arch |-> a, name |-> n, desc |-> d] :
        a \in {None, Some([code |-> "999", pad |-> ""])},
        n \in Phrases(VersionWords, MaxWords) \cup Phrases(ArchWords, MaxWords),
        d \in {None, Some("Pro"), Some("10"), Some("64-bit"), Some("Server 2022 x86")}}

\* the fragment written from its parts
Fragment(in) ==
    S("<IMAGE INDEX=\"1\">")
        \o (IF in.arch.some
            THEN S("<WINDOWS><ARCH>") \o S(in.arch.v.pad) \o S(in.arch.v.code)
                     \o S(in.arch.v.pad) \o S("</ARCH></WINDOWS>")
            ELSE S("<WINDOWS></WINDOWS>"))
        \o S("<DISPLAYNAME>") \o S(in.name) \o S("</DISPLAYNAME>")
        \o (IF in.desc.some
            THEN S("<DISPLAYDESCRIPTION>") \o S(in.desc.v) \o S("</DISPLAYDESCRIPTION>")
            ELSE <<>>)
        \o S("</IMAGE>")

InitImage ==
    /\ NewSession(<<>>)
    /\ input \in ImageInputs
    /\ output = [op |-> "none"]

ParseSingleImageXml ==
    /\ output.op = "none"
    /\ output' = [op |-> "parse_single_image_xml",
                  res |-> parse_single_image_xml(Fragment(input))]
    /\ UNCHANGED <<session_vars, input>>

ParseArchFromXml ==
    /\ output.op = "none"
    /\ output' = [op |-> "parse_arch_from_xml",
                  res |-> parse_arch_from_xml(Fragment(input))]
    /\ UNCHANGED <<session_vars, input>>

NextImage == ParseSingleImageXml \/ ParseArchFromXml

SpecImage == InitImage /\ [][NextImage]_vars

(* What the claims about a fragment say, written without the model's text  *)
(* operators.                                                              *)

\* whether pattern p occurs in text t
Has(t, p) == \E i \in 1..(Len(t) - Len(p) + 1) : SubSeq(t, i, i + Len(p) - 1) = p

\* t with its letters A-Z folded to a-z
FoldCase(t) == [i \in 1..Len(t) |-> IF t[i] >= 65 /\ t[i] <= 90 THEN t[i] + 32 ELSE t[i]]

\* the table of ARCH codes
ArchLabel == [c \in {"0", "9", "5", "12"} |->
                 CASE c = "0" -> "x86" [] c = "9" -> "x64" [] c = "5" -> "ARM" [] c = "12" -> "ARM64"]

\* the architecture the name/description scan gives for a folded text
ScanArch(t) ==
    CASE Has(t, S("x64")) \/ Has(t, S("amd64")) -> Some(S("x64"))
      [] ~(Has(t, S("x64")) \/ Has(t, S("amd64"))) /\ Has(t, S("x86")) -> Some(S("x86"))
      [] ~(Has(t, S("x64")) \/ Has(t, S("amd64"))) /\ ~Has(t, S("x86")) /\ Has(t, S("arm64"))
            -> Some(S("ARM64"))
      [] OTHER -> None

\* the version patterns in their priority order, each with its label
VersionPatterns ==
    << <<"windows 11", "Windows 11">>, <<"windows 10", "Windows 10">>,
       <<"windows server 2022", "Windows Server 2022">>,
       <<"windows server 2019", "Windows Server 2019">>,
       <<"windows server", "Windows Server">>, <<"windows", "Windows">> >>

\* the label of the first pattern, in priority order, that occurs in t
ScanVersion(t) ==
    LET hits == {k \in 1..Len(VersionPatterns) : Has(t, S(VersionPatterns[k][1]))}
    IN  IF hits = {} THEN None ELSE Some(S(VersionPatterns[Min(hits)][2]))

Parsed == output.op = "parse_single_image_xml"
Image == output.res.v
\* the fragment's ARCH tag holds one of the four codes of the table
ArchMapped == input.arch.some /\ input.arch.v.code \in DOMAIN ArchLabel

\* C5: when the ARCH tag value is "0", "9", "5" or "12", the record's
\* architecture is the table's label for it, whatever the name and the
\* description contain.
C5_XmlArchPrecedence ==
    (Parsed /\ ArchMapped) =>
        /\ output.res.ok
        /\ Image.architecture = Some(S(ArchLabel[input.arch.v.code]))

\* ARCH 9 with a name containing "x86" gives x64
C5_Witness ==
    /\ Parsed
    /\ input.arch = Some([code |-> "9", pad |-> ""])
    /\ input.name = "Windows 11 Pro x86"
    /\ Image.architecture = Some(S("x64"))

\* C6: parse_arch_from_xml gives the table's label for the codes "0", "9",
\* "5", "12" and None for every other value and for a missing or empty tag;
\* when it gives None the record's architecture is what the name/description
\* heuristic gives.
C6_ArchTable ==
    /\ output.op = "parse_arch_from_xml" =>
          output.res = IF ArchMapped THEN Some(S(ArchLabel[input.arch.v.code])) ELSE None
    /\ (Parsed /\ ~ArchMapped) =>
          Image.architecture = extract_version_and_arch(Image.name, Image.description)[2]

\* an unmapped code gives None from the tag and the record falls back on the name
C6_Witness ==
    /\ output.op = "parse_arch_from_xml"
    /\ input.arch = Some([code |-> "999", pad |-> ""])
    /\ output.res = None

\* C7 as stated: without a mapped ARCH tag the architecture is the scan of
\* the name concatenated with the description.
C7_Original ==
    (Parsed /\ ~ArchMapped) =>
        Image.architecture = ScanArch(FoldCase(Image.name \o Image.description))

\* C7, amended: without a mapped ARCH tag the architecture is the scan
\* ("x64" or "amd64", else "x86", else "arm64", else absent; case-insensitive)
\* of the name, one space, and the description.
C7_ArchFallback ==
    (Parsed /\ ~ArchMapped) =>
        Image.architecture = ScanArch(FoldCase(Image.name \o S(" ") \o Image.description))

\* a text containing both "x86" and "x64" resolves to x64
C7_Witness ==
    /\ Parsed
    /\ input.arch = None
    /\ input.name = "X86 x64"
    /\ Image.architecture = Some(S("x64"))

\* C8 as stated: the version is the label of the first pattern occurring in
\* the name concatenated with the description.
C8_Original ==
    Parsed => Image.version = ScanVersion(FoldCase(Image.name \o Image.description))

\* C8, amended: the version is the label of the first pattern, in the order
\* "windows 11", "windows 10", "windows server 2022", "windows server 2019",
\* "windows server", "windows", occurring (case-insensitive) in the name, one
\* space, and the description; absent when none occurs.
C8_VersionPriority ==
    Parsed => Image.version = ScanVersion(FoldCase(Image.name \o S(" ") \o Image.description))

\* "Windows Server 2019 Pro" gives "Windows Server 2019"
C8_Witness ==
    /\ Parsed
    /\ input.name = "Windows SERVER 2019"
    /\ input.desc = Some("Pro")
    /\ Image.version = Some(S("Windows Server 2019"))

(******************* SpecXml: one XML buffer decoded **********************)

\* the length of the longest buffer
MaxBufLen == 6

\* the bytes of a buffer: the BOM's, and those that make the code units
\* 0x0000, 0xD800 (a high surrogate), 0xDC00 (a low surrogate) and others
XmlBytes == {255, 254, 0, 216, 220}

XmlInputs == UNION {[1..n -> XmlBytes] : n \in 0..MaxBufLen}

InitXml ==
    /\ NewSession(<<>>)
    /\ input \in XmlInputs
    /\ output = [op |-> "none"]

ParseXmlData ==
    /\ output.op = "none"
    /\ LET r == parse_xml_data(images, input)
       IN  /\ images' = r.images
           /\ ret' = [op |-> "parse_xml_data", res |-> r.res]
           /\ output' = [op |-> "parse_xml_data", text |-> r.text]
    /\ UNCHANGED <<archive, header, pos, hreads, calls, parses, input>>

NextXml == ParseXmlData

SpecXml == InitXml /\ [][NextXml]_vars

\* the code units of a buffer after its first two bytes
UnitsAfterBom(buf) ==
    [k \in 1..((Len(buf) - 2) \div 2) |-> buf[2 * k + 1] + 256 * buf[2 * k + 2]]

\* the text of a sequence of code units, unit by unit; None when a surrogate
\* has no partner
RECURSIVE TextOfUnits(_)
TextOfUnits(u) ==
    IF u = <<>> THEN Some(<<>>)
    ELSE IF u[1] < 55296 \/ u[1] > 57343
    THEN LET rest == TextOfUnits(Tail(u))
         IN  IF rest.some THEN Some(<<u[1]>> \o rest.v) ELSE None
    ELSE IF u[1] <= 56319 /\ Len(u) >= 2 /\ u[2] >= 56320 /\ u[2] <= 57343
    THEN LET rest == TextOfUnits(Tail(Tail(u)))
         IN  IF rest.some
             THEN Some(<<65536 + (u[1] - 55296) * 1024 + (u[2] - 56320)>> \o rest.v)
             ELSE None
    ELSE None

\* the number, 1 to 4, of the first check of the decoder that the buffer
\* fails; 0 when it passes all four
FirstFailedCheck(buf) ==
    CASE Len(buf) < 2 -> 1
      [] Len(buf) >= 2 /\ (buf[1] # 255 \/ buf[2] # 254) -> 2
      [] Len(buf) >= 2 /\ buf[1] = 255 /\ buf[2] = 254 /\ Len(buf) % 2 = 1 -> 3
      [] OTHER -> IF TextOfUnits(UnitsAfterBom(buf)).some THEN 0 ELSE 4

\* C9: the decoder reports the first failing check of (1) fewer than 2
\* bytes, (2) first two bytes not 0xFF 0xFE, (3) odd byte count after the
\* BOM, (4) code units not valid UTF-16; a buffer passing all four is decoded
\* with the BOM stripped.
C9_DecoderCheckOrder ==
    ret.op = "parse_xml_data" =>
        LET n == FirstFailedCheck(input)
        IN  /\ n = 1 => ret.res = Err("Format", "XML data too short")
            /\ n = 2 => ret.res = Err("Format", "invalid XML data BOM")
            /\ n = 3 => ret.res = Err("Format", "XML UTF-16 data length is not even")
            /\ n = 4 => ret.res = Err("Decode", "cannot convert XML data to UTF-8")
            /\ n = 0 => /\ ret.res.ok
                        /\ output.text = TextOfUnits(UnitsAfterBom(input))

\* a 3-byte buffer with a wrong BOM reports the BOM, not the odd length
C9_Witness ==
    /\ ret.op = "parse_xml_data"
    /\ Len(input) = 3
    /\ input[1] # 255
    /\ ret.res = Err("Format", "invalid XML data BOM")

(********************* Spec: a session on an archive **********************)

\* how many operations are called on a session
MaxCalls == 3

XmlNone == S("<WIM></WIM>")
XmlOne ==
    S("<WIM><IMAGE INDEX=\"1\"><DIRCOUNT>7</DIRCOUNT><WINDOWS><ARCH>12</ARCH></WINDOWS>")
        \o S("<DISPLAYNAME>Windows Server 2022</DISPLAYNAME></IMAGE></WIM>")
XmlTwo ==
    S("<WIM><IMAGE INDEX=\"1\"><WINDOWS><ARCH>9</ARCH></WINDOWS>")
        \o S("<DISPLAYNAME>Windows 11 Pro</DISPLAYNAME></IMAGE>")
        \o S("<IMAGE INDEX=\"2\"><WINDOWS><ARCH>0</ARCH></WINDOWS>")
        \o S("<DISPLAYNAME>Windows 10 Home</DISPLAYNAME></IMAGE></WIM>")

\* a header with the given signature and XML descriptor
HeaderWith(signature, size, offset) ==
    [BaseHeader EXCEPT !.signature = signature,
                       !.xml_data_resource = Resource(size, 2, offset, size)]

\* an archive: the header, then the payload at offset 204
ArchiveOf(h, payload) == EncodeHeader(h) \o payload

\* an archive whose XML descriptor names the whole payload
Wim(payload) ==
    ArchiveOf(HeaderWith(Magic, U64(Len(payload)), U64(HeaderLen)), payload)

BadMagic == <<77, 83, 87, 73, 78, 0, 0, 0>>

Archives ==
    LET two == EncodeUtf16(XmlTwo)
    IN  { <<>>,                                               \* an empty file
          SubSeq(Wim(two), 1, 100),                           \* cut inside the header
          SubSeq(ArchiveOf(HeaderWith(BadMagic, U64(Len(two)), U64(HeaderLen)), two), 1, 100),
          ArchiveOf(HeaderWith(BadMagic, U64(Len(two)), U64(HeaderLen)), two),
          ArchiveOf(HeaderWith(Magic, Zero(4), U64(HeaderLen)), two),
          Wim(EncodeUtf16(XmlNone)),
          Wim(EncodeUtf16(XmlOne)),
          Wim(two),
          Wim(<<254, 255>> \o Tail(Tail(two))),               \* a wrong BOM
          ArchiveOf(HeaderWith(Magic, U64(Len(two) - 1), U64(HeaderLen)), two),
          Wim(<<255, 254, 0, 216, 65, 0>>),                   \* an unpaired surrogate
          ArchiveOf(HeaderWith(Magic, U64(1), U64(HeaderLen)), two),
          ArchiveOf(HeaderWith(Magic, U64(Len(two) + 2), U64(HeaderLen)), two),
          ArchiveOf(HeaderWith(Magic, U64(Len(two)), U64(60000)), two),
          ArchiveOf(HeaderWith(Magic, U64(Len(two)), <<0, 0, 0, 32768>>), two),
          ArchiveOf(HeaderWith(Magic, Max56, U64(HeaderLen)), two),
          ArchiveOf(HeaderWith(Magic, <<0, 16, 0, 0>>, U64(HeaderLen)), two),
          ArchiveOf(HeaderWith(Magic, U64(10), U64(0)), two) } \* the XML inside the header

Init ==
    /\ \E file \in Archives : NewSession(file)
    /\ input = <<>>
    /\ output = [op |-> "none"]

Self == [file |-> archive, pos |-> pos, header |-> header, images |-> images,
         hreads |-> hreads]

\* the session is usable: the process has not aborted
Alive == IF ret.res.ok THEN TRUE ELSE ret.res.kind # "Abort"

\* the state after operation op has returned r
Returned(op, r) ==
    /\ header' = r.self.header
    /\ images' = r.self.images
    /\ pos' = r.self.pos
    /\ hreads' = r.self.hreads
    /\ ret' = [op |-> op, res |-> r.res]
    /\ calls' = calls + 1
    /\ parses' = IF op # "read_header" /\ r.res.ok THEN parses + 1 ELSE parses
    /\ UNCHANGED <<archive, input, output>>

ReadHeader ==
    /\ calls < MaxCalls /\ Alive
    /\ Returned("read_header", read_header(Self))

ReadXmlData ==
    /\ calls < MaxCalls /\ Alive
    /\ \E mem \in {"yes", "no"} : Returned("read_xml_data", read_xml_data(Self, mem))

ParseFull ==
    /\ calls < MaxCalls /\ Alive
    /\ \E mem \in {"yes", "no"} : Returned("parse_full", parse_full(Self, mem))

Next == ReadHeader \/ ReadXmlData \/ ParseFull

Spec == Init /\ [][Next]_vars

(***************************** Session claims *****************************)

\* the header the first 204 bytes of the archive decode to
DecodedHeader == parse_header_buffer(SubSeq(archive, 1, HeaderLen))

\* a session just opened on the archive
Fresh == [file |-> archive, pos |-> U64(0), header |-> None, images |-> <<>>,
          hreads |-> 0]

\* the image list one read_xml_data on a fresh session leaves
SingleParse == read_xml_data(Fresh, "yes").self.images

\* C1: once read_header has succeeded, the header is cached: no operation,
\* whichever is called next, changes the cached header or reads the header
\* bytes again, and a later read_header returns the cached field values and
\* leaves the file cursor where it was.
C1_HeaderIdempotent ==
    [][header.some =>
          /\ header' = header
          /\ hreads' = hreads
          /\ ret'.op = "read_header" => (ret'.res = Ok(header.v) /\ pos' = pos)]_vars

\* a third call, read_header, after the header was decoded and two images
\* were parsed in between: still one read of the header bytes
C1_Witness ==
    /\ calls = 3 /\ hreads = 1 /\ Len(images) = 2
    /\ ret.op = "read_header" /\ ret.res = Ok(DecodedHeader)

\* C2 as stated: whenever the first 8 bytes of the archive differ from the
\* magic, every call fails with the signature error (a format error) and no
\* header is cached.
C2_Original ==
    (calls >= 1 /\ Len(archive) >= 8 /\ SubSeq(archive, 1, 8) # Magic)
        => /\ ret.res = Err("Format", "invalid WIM file signature")
           /\ header = None

\* C2: on an archive of at least 204 bytes whose first 8 bytes differ from
\* the magic, every call of the session fails with the signature error (a
\* format error) and no header is ever cached; each call reads the header
\* bytes again.
C2_BadSignature ==
    (calls >= 1 /\ Len(archive) >= HeaderLen /\ SubSeq(archive, 1, 8) # Magic)
        => /\ ret.res = Err("Format", "invalid WIM file signature")
           /\ header = None
           /\ hreads = calls

\* two calls or more on a complete archive with a wrong signature, the last
\* one through parse_full
C2_Witness ==
    /\ calls >= 2 /\ Len(archive) >= HeaderLen /\ SubSeq(archive, 1, 8) # Magic
    /\ ret.op = "parse_full" /\ ~ret.res.ok /\ header = None

\* C3: on an archive whose header decodes and whose XML descriptor has size
\* 0, read_xml_data and parse_full fail with the format error "no XML data
\* resource", the image list is empty and the decoded header is cached.
C3_ZeroSizeXml ==
    (/\ ret.op \in {"read_xml_data", "parse_full"}
     /\ Len(archive) >= HeaderLen
     /\ DecodedHeader.signature = Magic
     /\ IsZero(DecodedHeader.xml_data_resource.size))
        => /\ ret.res = Err("Format", "no XML data resource in the WIM file")
           /\ images = <<>>
           /\ header = Some(DecodedHeader)

\* parse_full has just failed on a header whose XML descriptor has size 0
C3_Witness ==
    /\ ret.op = "parse_full" /\ ~ret.res.ok
    /\ header.some /\ IsZero(header.v.xml_data_resource.size)
    /\ images = <<>>

\* C10: after one successful XML parse or more on a session, the image list
\* is the list a single parse of the archive on a fresh session gives.
C10_ImagesRebuilt == parses >= 1 => images = SingleParse

\* a second successful parse of an archive of two images: still two records
C10_Witness ==
    /\ parses >= 2 /\ ret.op = "read_xml_data" /\ ret.res.ok
    /\ Len(images) = 2 /\ images[1].index # images[2].index

(******************************* The summary ******************************)
(* get_primary_version, get_primary_architecture and get_windows_info read *)
(* self.images. A HashMap iterates over its keys in an order its hasher    *)
(* decides (RandomState: fresh random keys for every map), so the order is *)
(* an input of the operators; so is whether the build checks arithmetic    *)
(* overflow (debug: yes, release: no).                                     *)

Max(set) == CHOOSE x \in set : \A y \in set : y <= x

\* the keys of the HashMap the loop fills: the labels that are present
counted(labels) == {labels[i].v : i \in {j \in 1..Len(labels) : labels[j].some}}

\* the value the loop leaves under key label: how many images carry it
count_of(labels, label) == Cardinality({i \in 1..Len(labels) : labels[i] = Some(label)})

\* the orders in which into_iter() may yield the keys of the map
iteration_orders(keys) ==
    {o \in [1..Cardinality(keys) -> keys] :
        \A i, j \in 1..Cardinality(keys) : i # j => o[i] # o[j]}

\* .into_iter().max_by_key(|(_, count)| *count).map(|(label, _)| label) over
\* the entries in the order given: of several equally maximal entries
\* Iterator::max_by_key returns the last
max_by_key(labels, order) ==
    IF order = <<>> THEN None
    ELSE Some(order[Max({i \in 1..Len(order) :
                  \A j \in 1..Len(order) :
                      count_of(labels, order[j]) <= count_of(labels, order[i])})])

\* image.version and image.architecture of every image
versions(imgs) == [i \in 1..Len(imgs) |-> imgs[i].version]
architectures(imgs) == [i \in 1..Len(imgs) |-> imgs[i].architecture]

get_primary_version(imgs, order) ==
    IF imgs = <<>> THEN None ELSE max_by_key(versions(imgs), order)

get_primary_architecture(imgs, order) ==
    IF imgs = <<>> THEN None ELSE max_by_key(architectures(imgs), order)

\* editions.contains(&label)
has_edition(editions, label) == \E i \in 1..Len(editions) : editions[i] = label

\* the if / else if chain of the editions loop, for one image
editions_push(editions, name_lower) ==
    IF contains(name_lower, S("pro")) /\ ~has_edition(editions, S("Pro"))
    THEN Append(editions, S("Pro"))
    ELSE IF contains(name_lower, S("home")) /\ ~has_edition(editions, S("Home"))
    THEN Append(editions, S("Home"))
    ELSE IF contains(name_lower, S("enterprise")) /\ ~has_edition(editions, S("Enterprise"))
    THEN Append(editions, S("Enterprise"))
    ELSE IF contains(name_lower, S("education")) /\ ~has_edition(editions, S("Education"))
    THEN Append(editions, S("Education"))
    ELSE editions

\* the editions loop from image i on
RECURSIVE editions_from(_, _, _)
editions_from(imgs, i, editions) ==
    IF i > Len(imgs) THEN editions
    ELSE editions_from(imgs, i + 1, editions_push(editions, to_lowercase(imgs[i].name)))

\* a + b + carry on limbs, one limb longer than a: the last limb is the
\* carry out of the width
RECURSIVE AddLimbs(_, _, _)
AddLimbs(a, b, carry) ==
    IF a = <<>> THEN <<carry>>
    ELSE <<(a[1] + b[1] + carry) % 65536>>
             \o AddLimbs(Tail(a), Tail(b), (a[1] + b[1] + carry) \div 65536)

\* one step of Iterator::sum::<u64>: acc + x, where r is the sum with its
\* carry; with overflow checks an overflow panics, without it wraps
sum_step(acc, r, overflow_checks) ==
    IF acc.panicked THEN acc
    ELSE IF r[5] # 0 /\ overflow_checks THEN [panicked |-> TRUE, v |-> acc.v]
    ELSE [panicked |-> FALSE, v |-> SubSeq(r, 1, 4)]

\* self.images.iter().map(|img| img.total_bytes).sum() from image i on
RECURSIVE sum_from(_, _, _, _)
sum_from(imgs, i, acc, overflow_checks) ==
    IF i > Len(imgs) THEN acc
    ELSE sum_from(imgs, i + 1,
                  sum_step(acc, AddLimbs(acc.v, imgs[i].total_bytes, 0), overflow_checks),
                  overflow_checks)

\* the WindowsInfo literal; total is what the sum gave
windows_info(imgs, primary_version, primary_arch, total) ==
    IF total.panicked THEN [panicked |-> TRUE, res |-> None]
    ELSE [panicked |-> FALSE,
          res |-> Some([version      |-> primary_version,
                        architecture |-> primary_arch,
                        editions     |-> editions_from(imgs, 1, <<>>),
                        image_count  |-> Len(imgs),
                        total_size   |-> total.v])]

\* a plausible slip: the two labels exchanged in the summary
windows_checked_swapped(imgs, primary_version, primary_arch, overflow_checks) ==
    IF ~primary_version.some \/ ~primary_arch.some
    THEN [panicked |-> FALSE, res |-> None]
    ELSE IF ~contains(to_lowercase(primary_version.v), S("windows"))
    THEN [panicked |-> FALSE, res |-> None]
    ELSE windows_info(imgs, primary_arch.v, primary_version.v,
                      sum_from(imgs, 1, [panicked |-> FALSE, v |-> Zero(4)], overflow_checks))

\* get_windows_info from the two ? on
windows_checked(imgs, primary_version, primary_arch, overflow_checks) ==
    IF ~primary_version.some \/ ~primary_arch.some
    THEN [panicked |-> FALSE, res |-> None]
    ELSE IF ~contains(to_lowercase(primary_version.v), S("windows"))
    THEN [panicked |-> FALSE, res |-> None]
    ELSE windows_info(imgs, primary_version.v, primary_arch.v,
                      sum_from(imgs, 1, [panicked |-> FALSE, v |-> Zero(4)], overflow_checks))

\* get_windows_info; vorder and aorder are the iteration orders of the two
\* maps
get_windows_info(imgs, vorder, aorder, overflow_checks) ==
    windows_checked(imgs, get_primary_version(imgs, vorder),
                    get_primary_architecture(imgs, aorder), overflow_checks)

(**************** SpecSummary: the summary of an image list ****************)

\* how many images a generated XML text holds at most
MaxImages == 3

\* the images a text is written from: the display name, the ARCH code and
\* the TOTALBYTES value
ImageItems ==
    { [name |-> "Windows 11 Pro",          arch |-> Some("9"),  bytes |-> Some("5")],
      [name |-> "Windows 10 Home",         arch |-> Some("0"),  bytes |-> Some("7")],
      [name |-> "Windows 10 Pro Education", arch |-> Some("9"),
       bytes |-> Some("9223372036854775808")],
      [name |-> "Windows Server 2022 Enterprise", arch |-> None,
       bytes |-> Some("18446744073709551615")],
      [name |-> "Rescue disk home",        arch |-> Some("12"), bytes |-> None] }

ItemLists == UNION {[1..n -> ImageItems] : n \in 0..MaxImages}

\* the fragment of item it, the k-th of its text
ItemFragment(it, k) ==
    S("<IMAGE INDEX=\"") \o <<48 + k>> \o S("\">")
        \o (IF it.arch.some
            THEN S("<WINDOWS><ARCH>") \o S(it.arch.v) \o S("</ARCH></WINDOWS>")
            ELSE <<>>)
        \o (IF it.bytes.some
            THEN S("<TOTALBYTES>") \o S(it.bytes.v) \o S("</TOTALBYTES>")
            ELSE <<>>)
        \o S("<DISPLAYNAME>") \o S(it.name) \o S("</DISPLAYNAME>")
        \o S("</IMAGE>")

RECURSIVE ItemFragments(_, _)
ItemFragments(items, k) ==
    IF k > Len(items) THEN <<>>
    ELSE ItemFragment(items[k], k) \o ItemFragments(items, k + 1)

\* the XML text of a list of items
ItemsXml(items) == S("<WIM>") \o ItemFragments(items, 1) \o S("</WIM>")

\* a session whose image list was parsed from the text of some items
InitSummary ==
    /\ \E items \in ItemLists :
          /\ input = items
          /\ images = parse_xml_images(<<>>, ItemsXml(items))
    /\ archive = <<>>
    /\ header = None
    /\ pos = U64(0)
    /\ hreads = 0
    /\ ret = [op |-> "new", res |-> Ok("unit")]
    /\ calls = 0
    /\ parses = 0
    /\ output = [op |-> "none"]

\* the state after a getter has returned
Got(out) ==
    /\ output' = out
    /\ calls' = calls + 1
    /\ UNCHANGED <<archive, header, images, pos, hreads, ret, parses, input>>

\* no call follows a panic
Running == IF output.op = "get_windows_info" THEN ~output.res.panicked ELSE TRUE

GetPrimaryVersion ==
    /\ calls < MaxCalls /\ Running
    /\ \E order \in iteration_orders(counted(versions(images))) :
          Got([op |-> "get_primary_version", res |-> get_primary_version(images, order)])

GetPrimaryArchitecture ==
    /\ calls < MaxCalls /\ Running
    /\ \E order \in iteration_orders(counted(architectures(images))) :
          Got([op |-> "get_primary_architecture",
               res |-> get_primary_architecture(images, order)])

GetWindowsInfo ==
    /\ calls < MaxCalls /\ Running
    /\ \E vorder \in iteration_orders(counted(versions(images))),
          aorder \in iteration_orders(counted(architectures(images))),
          overflow_checks \in BOOLEAN :
          Got([op |-> "get_windows_info",
               res |-> get_windows_info(images, vorder, aorder, overflow_checks),
               primary_version |-> get_primary_version(images, vorder),
               primary_arch |-> get_primary_architecture(images, aorder)])

NextSummary == GetPrimaryVersion \/ GetPrimaryArchitecture \/ GetWindowsInfo

SpecSummary == InitSummary /\ [][NextSummary]_vars

(* What the claims about the summary say.                                  *)

\* a summary was returned by the last call
Summarised ==
    /\ output.op = "get_windows_info"
    /\ ~output.res.panicked
    /\ output.res.res.some
Summary == output.res.res.v

\* the labels that occur most often among the present ones
Modes(labels) ==
    LET present  == {l \in {labels[i] : i \in 1..Len(labels)} : l.some}
        times(l) == Cardinality({i \in 1..Len(labels) : labels[i] = l})
    IN  {l.v : l \in {m \in present : \A n \in present : times(n) <= times(m)}}

\* C12: two calls in a row of get_primary_version, or of
\* get_primary_architecture, on the same image list return the same label,
\* also when several labels are equally frequent.
C12_TieBreakDeterministic ==
    [][(/\ output.op = output'.op
        /\ output'.op \in {"get_primary_version", "get_primary_architecture"})
           => output'.res = output.res]_vars

\* the edition patterns, each with its label
EditionPatterns ==
    << <<"pro", "Pro">>, <<"home", "Home">>, <<"enterprise", "Enterprise">>,
       <<"education", "Education">> >>

\* the images whose lowercased name contains the k-th edition pattern
EditionMatches(k) ==
    {i \in 1..Len(images) : Has(FoldCase(images[i].name), S(EditionPatterns[k][1]))}

\* where label k stands in the editions list (0: nowhere)
EditionPlace(k) ==
    LET at == {j \in 1..Len(Summary.editions) : Summary.editions[j] = S(EditionPatterns[k][2])}
    IN  IF at = {} THEN 0 ELSE Min(at)

\* C13: the editions list of a summary holds a label exactly when the
\* lowercased name of some image contains its pattern, holds no label twice
\* and no other text, and orders the labels by the first image matching them.
C13_EditionDetection ==
    Summarised =>
        /\ \A k \in 1..4 : (EditionMatches(k) # {}) <=> (EditionPlace(k) # 0)
        /\ \A j \in 1..Len(Summary.editions) : \E k \in 1..4 : EditionPlace(k) = j
        /\ \A k, l \in 1..4 :
              (EditionPlace(k) # 0 /\ EditionPlace(l) # 0
                  /\ Min(EditionMatches(k)) < Min(EditionMatches(l)))
                  => EditionPlace(k) < EditionPlace(l)

\* C14: get_windows_info returns a summary only when the primary version it
\* determined contains "windows" (case-insensitive), and none for an empty
\* image list or a list without any version; the version and the
\* architecture of a summary are the primary ones the call determined, each
\* among the most frequent labels of the list.
C14_SummaryOnlyForWindows ==
    (output.op = "get_windows_info" /\ ~output.res.panicked) =>
        /\ (images = <<>> \/ Modes(versions(images)) = {}) => ~output.res.res.some
        /\ output.res.res.some =>
              /\ Has(FoldCase(Summary.version), S("windows"))
              /\ output.primary_version = Some(Summary.version)
              /\ output.primary_arch = Some(Summary.architecture)
              /\ Summary.version \in Modes(versions(images))
              /\ Summary.architecture \in Modes(architectures(images))

\* a summary of three images, two of them "Windows 10"
C14_Witness ==
    /\ Summarised
    /\ Len(images) = 3
    /\ Summary.version = S("Windows 10")
    /\ Summary.architecture = S("x64")
    /\ Modes(versions(images)) = {S("Windows 10")}

\* the arithmetic sum of total_bytes over the images from i on, on 5 limbs
RECURSIVE TotalBytes(_)
TotalBytes(i) ==
    IF i > Len(images) THEN Zero(5)
    ELSE SubSeq(AddLimbs(TotalBytes(i + 1), images[i].total_bytes \o <<0>>, 0), 1, 5)

\* C18: in every summary returned, total_size is the arithmetic sum of
\* total_bytes over the images, also when that sum exceeds 2^64-1, and
\* image_count is the number of images.
C18_TotalSize ==
    Summarised =>
        /\ Summary.total_size \o <<0>> = TotalBytes(1)
        /\ Summary.image_count = Len(images)

(****************** SpecScan: the fragments of a text *********************)

\* how many pieces a generated text is made of at most
MaxPieces == 4

\* what the texts are made of: two opening tags, the closing tag, a tag
\* that only starts like the opening tag, and a field
ScanPieces ==
    {"<IMAGE INDEX=\"1\">", "<IMAGE INDEX=\"2\">", "</IMAGE>", "<IMAGES>",
     "<DISPLAYNAME>A</DISPLAYNAME>"}

ScanInputs == UNION {[1..n -> ScanPieces] : n \in 0..MaxPieces}

\* the text of a sequence of pieces
RECURSIVE PiecesText(_)
PiecesText(pieces) ==
    IF pieces = <<>> THEN <<>> ELSE S(pieces[1]) \o PiecesText(Tail(pieces))

InitScan ==
    /\ NewSession(<<>>)
    /\ input \in ScanInputs
    /\ output = [op |-> "none"]

ParseXmlImages ==
    /\ output.op = "none"
    /\ output' = [op |-> "parse_xml_images",
                  images |-> parse_xml_images(<<>>, PiecesText(input))]
    /\ UNCHANGED <<session_vars, input>>

NextScan == ParseXmlImages

SpecScan == InitScan /\ [][NextScan]_vars

\* the positions (from 0) at or after from where pattern p occurs in t
Occurrences(t, p, from) ==
    {i \in from..(Len(t) - Len(p)) : SubSeq(t, i + 1, i + Len(p)) = p}

\* the spans of t from the cursor on: each from the first "<IMAGE" at or after
\* the cursor to the end of the first "</IMAGE>" after it
RECURSIVE SpansFrom(_, _)
SpanClosed(t, open, closes) ==
    IF closes = {} THEN <<>>
    ELSE <<[from |-> open, to |-> Min(closes) + 8]>> \o SpansFrom(t, Min(closes) + 8)
SpanOpened(t, opens) ==
    IF opens = {} THEN <<>>
    ELSE SpanClosed(t, Min(opens), Occurrences(t, S("</IMAGE>"), Min(opens)))
SpansFrom(t, cursor) == SpanOpened(t, Occurrences(t, S("<IMAGE"), cursor))

\* the record of every span, in order
SpanRecords(t, spans) ==
    [k \in 1..Len(spans) |->
        parse_single_image_xml(SubSeq(t, spans[k].from + 1, spans[k].to)).v]

\* C15: parse_xml_images gives the records, in document order, of the spans
\* that start at the first "<IMAGE" at or after the cursor and end with the
\* first "</IMAGE>" after it, the cursor moving to just after that closing
\* tag; the scan ends when no "<IMAGE" is left or one has no closing tag,
\* keeping the records it has.
C15_FragmentScan ==
    output.op = "parse_xml_images" =>
        output.images = SpanRecords(PiecesText(input), SpansFrom(PiecesText(input), 0))

\* a span holding a second "<IMAGE", then an "<IMAGE" without closing tag:
\* one record, of the first opening tag
C15_Witness ==
    /\ output.op = "parse_xml_images"
    /\ input = <<"<IMAGE INDEX=\"1\">", "<IMAGE INDEX=\"2\">", "</IMAGE>", "<IMAGES>">>
    /\ Len(output.images) = 1
    /\ output.images[1].index = <<1, 0>>

(********************* SpecTag: one tag looked up *************************)

\* what the texts are made of: the two tags of ARCH, a space, a value
\* followed by a space, and another tag
TagPieces == {"<ARCH>", "</ARCH>", " ", "9 ", "<X>"}

TagInputs == UNION {[1..n -> TagPieces] : n \in 0..MaxPieces}

InitTag ==
    /\ NewSession(<<>>)
    /\ input \in TagInputs
    /\ output = [op |-> "none"]

ExtractTagValue ==
    /\ output.op = "none"
    /\ output' = [op |-> "extract_tag_value",
                  res |-> extract_tag_value(PiecesText(input), S("ARCH"))]
    /\ UNCHANGED <<session_vars, input>>

NextTag == ExtractTagValue

SpecTag == InitTag /\ [][NextTag]_vars

\* t without the white space at its two ends
Trimmed(t) ==
    LET inked == {i \in 1..Len(t) : t[i] \notin {9, 10, 11, 12, 13, 32}}
    IN  IF inked = {} THEN <<>> ELSE SubSeq(t, Min(inked), Max(inked))

\* where (from 0) the first "<ARCH>" and the first "</ARCH>" of the text are
TagOpens  == Occurrences(PiecesText(input), S("<ARCH>"), 0)
TagCloses == Occurrences(PiecesText(input), S("</ARCH>"), 0)

\* the trimmed text between the end of the first "<ARCH>" and the start of
\* the first "</ARCH>"
TagBetween == Trimmed(SubSeq(PiecesText(input), Min(TagOpens) + 7, Min(TagCloses)))

\* C16 as stated: the field is absent when a tag is missing or the first
\* close tag starts before the end of the first open tag, and in every other
\* case its value is the trimmed text between the two.
C16_Original ==
    output.op = "extract_tag_value" =>
        IF TagOpens = {} \/ TagCloses = {} THEN output.res = None
        ELSE IF Min(TagCloses) < Min(TagOpens) + 6 THEN output.res = None
        ELSE output.res = Some(TagBetween)

\* C16: the field is absent when a tag is missing or the first close tag
\* starts before or at the end of the first open tag (nothing stands between
\* them), and in every other case its value is the trimmed text between the
\* end of the first open tag and the start of the first close tag.
C16_TagLookup ==
    output.op = "extract_tag_value" =>
        IF TagOpens = {} \/ TagCloses = {} THEN output.res = None
        ELSE IF Min(TagCloses) <= Min(TagOpens) + 6 THEN output.res = None
        ELSE output.res = Some(TagBetween)

\* a second open tag inside the first pair: the value runs from the end of
\* the first open tag to the first close tag
C16_Witness ==
    /\ output.op = "extract_tag_value"
    /\ input = <<"<ARCH>", "<ARCH>", "9 ", "</ARCH>">>
    /\ output.res = Some(S("<ARCH>9"))

(************************ More session claims *****************************)

\* the XML descriptor of the cached header
XmlOf == header.v.xml_data_resource

\* the archive holds the size bytes the XML descriptor names at its offset
XmlWithinArchive ==
    /\ Small(XmlOf.offset) /\ Small(XmlOf.size)
    /\ XmlOf.offset[1] + XmlOf.size[1] <= Len(archive)

\* C17: when the XML descriptor (of size above 0) names bytes the archive
\* does not hold, or an offset or a size beyond what the platform represents,
\* read_xml_data and parse_full fail with an I/O error and decode nothing.
C17_XmlReadFails ==
    (/\ ret.op \in {"read_xml_data", "parse_full"}
     /\ header.some /\ ~IsZero(XmlOf.size)
     /\ ~XmlWithinArchive)
        => /\ ~ret.res.ok
           /\ ret.res.kind = "Io"
           /\ images = <<>>

\* C19: in every state of a session a non-empty image list comes with a
\* cached header whose signature is the magic; as long as no header is
\* cached the image list is empty, every call has failed in read_header, and
\* the cursor has not left the header bytes.
C19_ImagesImplyHeader ==
    /\ images # <<>> => (header.some /\ header.v.signature = Magic)
    /\ ~header.some =>
          /\ images = <<>>
          /\ Small(pos) /\ pos[1] <= HeaderLen
          /\ calls >= 1 => ret.res \in {Err("Io", "reading the WIM header failed"),
                                        Err("Format", "invalid WIM file signature")}

\* one parse_full on a new session has decoded the header and two images
C19_Witness ==
    /\ calls = 1 /\ ret.op = "parse_full" /\ ret.res.ok
    /\ Len(images) = 2
    /\ header = Some(DecodedHeader) /\ header.v.signature = Magic

(************* SpecRewrite: the file changes under the session ************)
(* The session keeps the file open and reads it again on every call;       *)
(* another process may write to the file between two calls.                *)

\* the file with its XML payload (from offset 204 on) damaged: the BOM
\* exchanged, the first code unit made a lone surrogate, the file cut short
Damaged(file) ==
    IF Len(file) < HeaderLen + 4 THEN {}
    ELSE { [file EXCEPT ![HeaderLen + 1] = 254, ![HeaderLen + 2] = 255],
           [file EXCEPT ![HeaderLen + 3] = 0, ![HeaderLen + 4] = 216],
           SubSeq(file, 1, HeaderLen + 3) }

Rewrite ==
    /\ calls < MaxCalls /\ Alive
    /\ archive \in Archives
    /\ archive' \in Damaged(archive)
    /\ UNCHANGED <<header, images, pos, hreads, ret, calls, parses, input, output>>

NextRewrite == Next \/ Rewrite

SpecRewrite == Init /\ [][NextRewrite]_vars

\* the step is a call of read_xml_data that fails and returns
XmlCallFails ==
    /\ calls' = calls + 1
    /\ ret'.op = "read_xml_data"
    /\ ~ret'.res.ok
    /\ ret'.res.kind # "Abort"

\* C20 as stated: a call of read_xml_data that fails leaves the image list
\* and the cached header as they were before the call.
C20_Original ==
    [][XmlCallFails => (images' = images /\ header' = header)]_vars

\* C20: a call of read_xml_data that fails leaves the image list as it was
\* before the call, and the cached header too when there was one; when there
\* was none, the header the call decoded is cached although the call fails.
C20_FailureKeepsImages ==
    [][XmlCallFails =>
          /\ images' = images
          /\ header.some => header' = header
          /\ (~header.some /\ header'.some) => header' = Some(DecodedHeader)]_vars

\* read_xml_data has failed on the BOM of a rewritten file, and the two
\* images of the parse before are still there
C20_Witness ==
    /\ ret.op = "read_xml_data"
    /\ ret.res = Err("Format", "invalid XML data BOM")
    /\ parses >= 1 /\ Len(images) = 2
    /\ header.some

\* C21: get_windows_info returns a summary exactly when at least one image
\* has a version and at least one image has an architecture: the windows
\* check rejects no label of the version classifier, and a list without any
\* architecture gets no summary.
C21_SummaryExactlyWhenLabelled ==
    output.op = "get_windows_info" =>
        (Summarised <=>
            (/\ \E i \in 1..Len(images) : images[i].version.some
             /\ \E i \in 1..Len(images) : images[i].architecture.some))

====
